---- MODULE Spec2Model ----
(***************************************************************************)
(* Model of the sensor collection loop of src/main.py: the start-up        *)
(* alignment, the per-tick sample/append/check, the flush to a partitioned *)
(* Parquet file and the re-alignment of the next batch end.                *)
(*                                                                         *)
(* Two further parts of the repository have a specification of their own:  *)
(* compensate_temperature of src/main.py (SpecComp) and the per-minute      *)
(* aggregation job of src/scripts/daily_aggregation.py (SpecAgg).          *)
(*                                                                         *)
(* Time is a number of sub-second units since the epoch (Res units per     *)
(* second), so that time.time() keeps a fractional part while the calendar *)
(* fields .minute and .second of a datetime stay whole numbers.            *)
(***************************************************************************)
EXTENDS Integers, Sequences, FiniteSets, TLC

\* ---------------------------------------------------------------- bounds
\* Sub-second units per second.
Res == 2
\* Loop iterations explored per run.
MaxTicks == 4
\* Particulate read errors explored per run.
MaxFaults == 1
\* Calls of compensate_temperature explored per run of SpecComp.
MaxCalls == 6
\* Loop iterations explored per run of sensor_to_parquet_fastparquet.py.
MaxFastTicks == 4

\* ------------------------------------------------------- program constants
READ_INTERVAL == 1
STATION_ID == "01"
GridMinutes == 5
\* TEMP_COMPENSATION_FACTOR = 2.25, as the fraction 9/4.
TEMP_COMPENSATION_FACTOR == [num |-> 9, den |-> 4]
\* Length the smoothing buffer is filled to by the first call.
BufferLength == 5
\* get_cpu_temperature's fallback of 40.0 degrees, in millidegrees.
FallbackCpuTemperature == 40000
\* The exit status main() of the aggregation job returns from its except
\* block.
ErrorExitStatus == 1
\* READ_INTERVAL and BATCH_DURATION of sensor_to_parquet_fastparquet.py.
FAST_READ_INTERVAL == 1
FAST_BATCH_DURATION == 60

\* ------------------------------------------------------------ input sets
\* Configured batch durations in seconds (BATCH_DURATION is an editable
\* setting): the default, a value that is no multiple of five minutes, two
\* values in the hourly filename range and one above it.
Durations == {60, 300, 600, 3600, 7200}

\* 1970-12-31T00:00:00Z in seconds; the runs start on that day so that they
\* can cross a day, month and year border.
Day0 == 364 * 86400

\* Start instants (seconds): 12:00:07 (off the grid) and 23:50:00 (on the
\* grid, close to midnight).
StartSeconds == {Day0 + 12*3600 + 7, Day0 + 23*3600 + 50*60}

\* Sub-second part of the start instant, in units: a start on a whole
\* second and a start late in a second.
StartFractions == {0, Res - 1}

\* Time between datetime.now() and time.time() at start-up, in units; after
\* a start late in a second the later read lies in the next whole second.
Skews == {0, 1}

\* Per tick <<time read_sensors takes between its timestamp and the loop's
\* time.time(), time the tick is late beyond its sleep>>, in units: a prompt
\* tick, a slow read, a process suspended until less than a second before
\* the next grid instant, and a process suspended for two hours.
Delays == {<<0, 0>>, <<1, 0>>, <<0, 299 * Res - 1>>, <<0, 7199 * Res>>}

\* Errors a sensor read can raise on a tick.
HandledFaults == {"pms_timeout", "pms_value"}
UnhandledFaults == {"bme280", "gas", "ltr559"}

PMFields == {"pm1", "pm2_5", "pm10", "particles_03um", "particles_05um",
             "particles_10um", "particles_25um", "particles_50um", "particles_100um"}
BMEFields == {"temperature", "raw_temperature", "pressure", "humidity"}
GasFields == {"oxidised", "reducing", "nh3"}
LightFields == {"lux", "proximity"}
StaticFields == {"latitude", "longitude"}

\* What a read of the thermal zone file yields: a number of millidegrees, or
\* an IOError/ValueError.
CpuReads == {[ok |-> TRUE, millis |-> 45000], [ok |-> TRUE, millis |-> 50000],
             [ok |-> FALSE, millis |-> 0]}

\* Raw BME280 temperatures, millidegrees.
RawTemperatures == {20000, 25000}

\* The temperature inputs of the collection loop's ticks: one raw
\* temperature and an unreadable thermal zone file.
LoopTemperatureInputs == [raw |-> 25000, read |-> [ok |-> FALSE, millis |-> 0]]

\* Time an iteration of sensor_to_parquet_fastparquet.py is late beyond its
\* sleep, in units: not at all, a process suspended for most of a batch, and
\* one suspended for an hour.
FastDelays == {0, 58 * Res, 3600 * Res}

\* Time the write of a batch takes, in units.
FastWriteTimes == {0, 1}

\* Timestamps (seconds of the day) the input files of a station day can hold
\* a row for: three readings of minute 0, one of minute 1, one of minute 2.
SourceTimestamps == {0, 1, 59, 60, 125}

VARIABLES
    BATCH_DURATION,   \* configured batch duration, seconds
    clock,            \* wall clock, units
    pc,               \* "init" | "loop" | "writing" | "crashed" | "stopped";
                      \* "off" when main.py is not the script that runs
    now,              \* datetime.now() read at start-up, units
    batch_start,      \* time.time() read at start-up, units
    first_batch_duration, \* seconds
    next_batch_end,   \* units
    batch_data,       \* sequence of readings
    output_path,      \* path of the file being written (pc = "writing")
    files,            \* the output tree: set of [path, complete, rows, boundary]
    flushes,          \* history: one record per flush begun
    samples,          \* history: one record per reading returned by read_sensors
    nticks,           \* loop iterations so far
    nfaults,          \* particulate read errors so far
    failure,          \* what ended the loop: "none" | "sensor" | "write" | "interrupt"
    current_time,     \* time.time() read after the latest sample, units
    sleep_time,       \* sleep_time of the latest tick, units
    \* compensate_temperature
    TEMP_COMPENSATION_ENABLED,
    cpu_temps,        \* the smoothing buffer, millidegrees
    cpu_samples,      \* history: the CPU temperatures the calls read
    ncalls,           \* calls of compensate_temperature so far
    raw_temp,         \* argument of the latest call, millidegrees
    comp_temp,        \* result of the latest call, a fraction [num, den]
    \* daily_aggregation.main
    agg_pc,           \* "start" | "counted" | "copied" | "done"
    source_rows,      \* timestamps of the rows read_parquet(input_path) yields
    source_row_count,
    dest_written,     \* COPY ... TO dest_path has run
    dest_rows,        \* timestamps of the rows of the destination file
    destination_row_count,
    warned,           \* the row-count warning was printed
    outcome,          \* which return was taken: "none" | "no_data" | "ok" | "error"
    exit_status,      \* value main() returned (-1: not returned yet)
    \* sensor_to_parquet_fastparquet.main
    fast_pc,          \* "off" | "loop" | "writing" | "crashed" | "stopped"
    fast_clock,       \* wall clock of the run, units
    fast_batch_start, \* batch_start, units
    fast_batch_data,  \* batch_data: sequence of readings
    fast_files,       \* files in the working directory: set of [name, complete, rows]
    fast_flushes,     \* history: one record per flush begun
    fast_nticks       \* loop iterations so far

loopvars == <<BATCH_DURATION, clock, pc, now, batch_start, first_batch_duration,
              next_batch_end, batch_data, output_path, files, flushes, samples,
              nticks, nfaults, failure, current_time, sleep_time>>

compvars == <<TEMP_COMPENSATION_ENABLED, cpu_temps, cpu_samples, ncalls,
              raw_temp, comp_temp>>

aggvars == <<agg_pc, source_rows, source_row_count, dest_written, dest_rows,
             destination_row_count, warned, outcome, exit_status>>

fastvars == <<fast_pc, fast_clock, fast_batch_start, fast_batch_data,
              fast_files, fast_flushes, fast_nticks>>

vars == <<loopvars, compvars, aggvars, fastvars>>

\* ------------------------------------------------------- calendar fields
\* datetime.fromtimestamp(t, utc): whole seconds, minute, second, hour, day.
WholeSeconds(t) == t \div Res
minute(t) == (WholeSeconds(t) \div 60) % 60
second(t) == WholeSeconds(t) % 60
hour(t) == (WholeSeconds(t) \div 3600) % 24
EpochDay(t) == WholeSeconds(t) \div 86400

\* Proleptic Gregorian date of an epoch day: <<year, month, day>>.
CivilFromDays(z0) ==
    LET z == z0 + 719468
        era == z \div 146097
        doe == z - era * 146097
        yoe == (doe - doe \div 1460 + doe \div 36524 - doe \div 146096) \div 365
        doy == doe - (365 * yoe + yoe \div 4 - yoe \div 100)
        mp == (5 * doy + 2) \div 153
        d == doy - (153 * mp + 2) \div 5 + 1
        m == IF mp < 10 THEN mp + 3 ELSE mp - 9
        y == yoe + era * 400 + (IF m <= 2 THEN 1 ELSE 0)
    IN <<y, m, d>>

\* strftime with zero padding: the decimal digits of n on w places.
RECURSIVE Digits(_, _)
Digits(n, w) == IF w = 0 THEN <<>> ELSE Append(Digits(n \div 10, w - 1), n % 10)

Max(a, b) == IF a >= b THEN a ELSE b
Min(a, b) == IF a <= b THEN a ELSE b

\* ------------------------------------------------------------ alignment
\* minutes_to_add = 5 - (dt.minute % 5)
minutes_to_add(t) == GridMinutes - (minute(t) % GridMinutes)

\* "exactly at a 5-minute boundary": the test reads .minute and .second only.
AtBoundary(t) == minutes_to_add(t) = GridMinutes /\ second(t) = 0

\* Variant: the start is aligned to the next whole minute.
seconds_to_next_5min_MinuteGrid(t) ==
    IF second(t) = 0 THEN 0 ELSE 60 - second(t)

\* seconds_to_next_5min of the instant t.
seconds_to_next_5min(t) ==
    IF AtBoundary(t) THEN 0 ELSE (minutes_to_add(t) * 60) - second(t)

\* Variant: no fallback to the configured duration on a grid start.
FirstBatchDuration_NoFallback(t, duration) == seconds_to_next_5min(t)

\* first_batch_duration, seconds, for a start at the instant t.
FirstBatchDuration(t, duration) ==
    IF seconds_to_next_5min(t) > 0 THEN seconds_to_next_5min(t) ELSE duration

\* Variant: the next batch end is counted from the time of the flush.
NextBatchEnd_FromClock(batch_end, duration) ==
    LET advanced == clock + duration * Res
    IN IF AtBoundary(advanced)
       THEN advanced
       ELSE advanced + ((minutes_to_add(advanced) * 60) - second(advanced)) * Res

\* Variant: the previous batch end plus the duration, not re-aligned.
NextBatchEnd_NoRealign(batch_end, duration) == batch_end + duration * Res

\* The next batch end computed after a flush, units.
NextBatchEnd(batch_end, duration) ==
    LET advanced == batch_end + duration * Res
    IN IF AtBoundary(advanced)
       THEN advanced
       ELSE advanced + ((minutes_to_add(advanced) * 60) - second(advanced)) * Res

\* ----------------------------------------------------------- output path
\* rounded_dt: the batch end with the minute rounded down to the grid and
\* the second and microsecond cleared.
rounded_minute(t) == GridMinutes * (minute(t) \div GridMinutes)

Filename(batch_end, duration) ==
    IF duration <= 300
    THEN [stem |-> "data_",
          digits |-> Digits(hour(batch_end), 2) \o Digits(rounded_minute(batch_end), 2),
          ext |-> ".parquet"]
    ELSE IF duration <= 3600
    THEN [stem |-> "data_", digits |-> Digits(hour(batch_end), 2), ext |-> ".parquet"]
    ELSE [stem |-> "data", digits |-> <<>>, ext |-> ".parquet"]

OutputDir(batch_end) ==
    LET ymd == CivilFromDays(EpochDay(batch_end))
    IN [root |-> "output", station |-> STATION_ID, year |-> Digits(ymd[1], 4),
        month |-> Digits(ymd[2], 2), day |-> Digits(ymd[3], 2)]

\* Variant: the path is taken from the time of the flushing tick.
OutputPath_FromClock(batch_end, duration) ==
    [dir |-> OutputDir(clock), filename |-> Filename(clock, duration)]

OutputPath(batch_end, duration) ==
    [dir |-> OutputDir(batch_end), filename |-> Filename(batch_end, duration)]

\* ------------------------------------------------------------- sampling
Fields == StaticFields \cup BMEFields \cup GasFields \cup LightFields \cup PMFields

\* Variant: the error handler nulls the three mass fields only.
read_sensors_NullMassOnly(sampled_at, fault) ==
    [timestamp |-> sampled_at,
     data |-> [f \in Fields |->
                 IF f \in {"pm1", "pm2_5", "pm10"} /\ fault \in HandledFaults
                 THEN "None" ELSE "value"]]

\* read_sensors when no unhandled error is raised. Every sensor is enabled
\* in SENSOR_CONFIG and the optional sensor objects (ltr559_sensor, pms5003)
\* are taken to exist, so every sensor contributes its fields; a handled
\* particulate error nulls the PM fields.
read_sensors(sampled_at, fault) ==
    [timestamp |-> sampled_at,
     data |-> [f \in Fields |->
                 IF f \in PMFields /\ fault \in HandledFaults THEN "None" ELSE "value"]]

\* df['timestamp'].dt.floor('s') applied to every row of the batch.
FloorTimestamps(batch) ==
    [i \in 1..Len(batch) |->
        [batch[i] EXCEPT !.timestamp = WholeSeconds(batch[i].timestamp) * Res]]

\* Variant: the batch is kept after a flush.
ResetBatch_Keep(batch) == batch

\* batch_data = [] after a flush.
ResetBatch(batch) == <<>>

\* ----------------------------------------------- temperature compensation
\* Temperatures are whole millidegrees (the thermal zone file holds
\* millidegrees); a compensated temperature is the exact fraction num/den.

\* get_cpu_temperature: the file's value, or the fallback when the read or
\* the conversion raises.
get_cpu_temperature(read) ==
    IF read.ok THEN read.millis ELSE FallbackCpuTemperature

RECURSIVE Sum(_)
Sum(seq) == IF seq = <<>> THEN 0 ELSE Head(seq) + Sum(Tail(seq))

\* Variant: the buffer grows, the oldest element is kept.
SmoothedBuffer_Grow(buf, cpu_temp) ==
    IF Len(buf) = 0
    THEN [i \in 1..BufferLength |-> cpu_temp]
    ELSE buf \o <<cpu_temp>>

\* The buffer after one smoothing step with the CPU temperature cpu_temp.
SmoothedBuffer(buf, cpu_temp) ==
    IF Len(buf) = 0
    THEN [i \in 1..BufferLength |-> cpu_temp]
    ELSE Tail(buf) \o <<cpu_temp>>

\* Variant: the switch is not consulted.
CompensatedBuffer_Always(enabled, buf, cpu_temp) == SmoothedBuffer(buf, cpu_temp)

\* cpu_temps after a call of compensate_temperature.
CompensatedBuffer(enabled, buf, cpu_temp) ==
    IF ~enabled THEN buf ELSE SmoothedBuffer(buf, cpu_temp)

\* The value compensate_temperature returns, buf being the buffer after the
\* smoothing step: raw - ((avg - raw) / factor) with avg = sum(buf)/len(buf).
CompensatedTemperature(enabled, raw, buf) ==
    IF ~enabled
    THEN [num |-> raw, den |-> 1]
    ELSE [num |-> TEMP_COMPENSATION_FACTOR.num * Len(buf) * raw
                    - TEMP_COMPENSATION_FACTOR.den * (Sum(buf) - Len(buf) * raw),
          den |-> TEMP_COMPENSATION_FACTOR.num * Len(buf)]

\* One call compensate_temperature(raw); read is what the thermal zone file
\* yields, and it is read only when compensation is enabled.
CompensateCall(raw, read) ==
    LET cpu_temp == get_cpu_temperature(read)
        buf == CompensatedBuffer(TEMP_COMPENSATION_ENABLED, cpu_temps, cpu_temp)
    IN /\ cpu_temps' = buf
       /\ cpu_samples' = IF TEMP_COMPENSATION_ENABLED
                         THEN Append(cpu_samples, cpu_temp) ELSE cpu_samples
       /\ ncalls' = ncalls + 1
       /\ raw_temp' = raw
       /\ comp_temp' = CompensatedTemperature(TEMP_COMPENSATION_ENABLED, raw, buf)
       /\ UNCHANGED TEMP_COMPENSATION_ENABLED

\* --------------------------------------------------------- initial states
\* The locals of the collection loop before main() runs.
LoopGlobals ==
    /\ now = 0
    /\ batch_start = 0
    /\ first_batch_duration = 0
    /\ next_batch_end = 0
    /\ batch_data = <<>>
    /\ output_path = <<>>
    /\ files = {}
    /\ flushes = <<>>
    /\ samples = <<>>
    /\ nticks = 0
    /\ nfaults = 0
    /\ failure = "none"
    /\ current_time = 0
    /\ sleep_time = 0

LoopInit ==
    /\ pc = "init"
    /\ LoopGlobals

\* The module globals of the compensation before the first call.
CompInit ==
    /\ cpu_temps = <<>>
    /\ cpu_samples = <<>>
    /\ ncalls = 0
    /\ raw_temp = 0
    /\ comp_temp = [num |-> 0, den |-> 1]

\* sensor_to_parquet_fastparquet.py is not the script that runs.
FastOff ==
    /\ fast_pc = "off"
    /\ fast_clock = 0
    /\ fast_batch_start = 0
    /\ fast_batch_data = <<>>
    /\ fast_files = {}
    /\ fast_flushes = <<>>
    /\ fast_nticks = 0

\* The aggregation job before main() runs.
AggInit ==
    /\ agg_pc = "start"
    /\ source_row_count = 0
    /\ dest_written = FALSE
    /\ dest_rows = {}
    /\ destination_row_count = 0
    /\ warned = FALSE
    /\ outcome = "none"
    /\ exit_status = -1

\* -------------------------------------------------------------- actions
Init ==
    /\ BATCH_DURATION \in Durations
    /\ \E s \in StartSeconds, f \in StartFractions : clock = s * Res + f
    /\ LoopInit
    /\ TEMP_COMPENSATION_ENABLED = TRUE
    /\ CompInit
    /\ source_rows = {}
    /\ AggInit
    /\ FastOff

\* main() up to the loop: the calendar time now and the base time.time()
\* are two reads of the clock.
Startup ==
    /\ pc = "init"
    /\ \E skew \in Skews :
        LET base == clock + skew
        IN /\ now' = clock
           /\ first_batch_duration' = FirstBatchDuration(clock, BATCH_DURATION)
           /\ batch_start' = base
           /\ next_batch_end' = base + FirstBatchDuration(clock, BATCH_DURATION) * Res
           /\ clock' = base
    /\ pc' = "loop"
    /\ UNCHANGED <<BATCH_DURATION, batch_data, output_path, files, flushes,
                   samples, nticks, nfaults, failure, current_time, sleep_time>>
    /\ UNCHANGED <<compvars, aggvars, fastvars>>

\* Variant: the sleep is the read interval, never shortened.
SleepTime_Fixed(time_to_next_batch) == READ_INTERVAL * Res

\* sleep_time = min(READ_INTERVAL, time_to_next_batch), units.
SleepTime(time_to_next_batch) == Min(READ_INTERVAL * Res, time_to_next_batch)

\* What a tick may meet: any delay with healthy sensors, or a particulate
\* read error (handled inside read_sensors) on a prompt tick.
TickInputs ==
    {[fault |-> "none", delay |-> d] : d \in Delays}
        \cup (IF nfaults < MaxFaults
              THEN {[fault |-> f, delay |-> <<0, 0>>] : f \in HandledFaults}
              ELSE {})

\* One iteration that does not flush: sample, append, check, sleep.
Tick ==
    /\ pc = "loop"
    /\ nticks < MaxTicks
    /\ \E input \in TickInputs :
        LET fault == input.fault
            delay == input.delay
            sensor_data == read_sensors(clock, fault)
            read_at == clock + delay[1]
            time_to_next_batch == Max(0, next_batch_end - read_at)
        IN /\ ~(read_at >= next_batch_end)
           /\ batch_data' = Append(batch_data, sensor_data)
           /\ samples' = Append(samples, [reading |-> sensor_data, pm_error |-> fault \in HandledFaults])
           /\ current_time' = read_at
           /\ sleep_time' = SleepTime(time_to_next_batch)
           /\ clock' = read_at + SleepTime(time_to_next_batch) + delay[2]
           /\ nfaults' = IF fault = "none" THEN nfaults ELSE nfaults + 1
    /\ CompensateCall(LoopTemperatureInputs.raw, LoopTemperatureInputs.read)
    /\ nticks' = nticks + 1
    /\ UNCHANGED <<BATCH_DURATION, pc, now, batch_start, first_batch_duration,
                   next_batch_end, output_path, files, flushes, failure>>
    /\ UNCHANGED <<aggvars, fastvars>>

\* to_parquet opens the file under its final name for writing: whatever was
\* stored under that name is gone and the new file holds no complete batch.
OpenForWrite(tree, path, boundary) ==
    {f \in tree : f.path # path}
        \cup {[path |-> path, complete |-> FALSE, rows |-> <<>>, boundary |-> boundary]}

\* to_parquet returns: the file holds the rows of the DataFrame.
CloseWritten(tree, path, boundary, rows) ==
    {f \in tree : f.path # path}
        \cup {[path |-> path, complete |-> TRUE, rows |-> rows, boundary |-> boundary]}

\* Variant: the boundary check comes before the append.
FlushedBatch_WithoutTickReading(batch, sensor_data) == batch

\* The batch a flushing tick builds its DataFrame from: the reading of the
\* tick was appended before the boundary check.
FlushedBatch(batch, sensor_data) == Append(batch, sensor_data)

\* One iteration whose check succeeds, up to the start of the write.
TickFlush ==
    /\ pc = "loop"
    /\ nticks < MaxTicks
    /\ \E input \in TickInputs :
        LET fault == input.fault
            delay == input.delay
            sensor_data == read_sensors(clock, fault)
            read_at == clock + delay[1]
            time_to_next_batch == Max(0, next_batch_end - read_at)
            path == OutputPath(next_batch_end, BATCH_DURATION)
        IN /\ delay[2] = 0
           /\ read_at >= next_batch_end
           /\ current_time' = read_at
           /\ sleep_time' = SleepTime(time_to_next_batch)
           /\ batch_data' = FlushedBatch(batch_data, sensor_data)
           /\ samples' = Append(samples, [reading |-> sensor_data, pm_error |-> fault \in HandledFaults])
           /\ output_path' = path
           /\ files' = OpenForWrite(files, path, next_batch_end)
           /\ flushes' = Append(flushes,
                  [boundary |-> next_batch_end, at |-> read_at, path |-> path,
                   batch |-> FlushedBatch(batch_data, sensor_data)])
           /\ clock' = read_at
           /\ nfaults' = IF fault = "none" THEN nfaults ELSE nfaults + 1
    /\ CompensateCall(LoopTemperatureInputs.raw, LoopTemperatureInputs.read)
    /\ nticks' = nticks + 1
    /\ pc' = "writing"
    /\ UNCHANGED <<BATCH_DURATION, now, batch_start, first_batch_duration,
                   next_batch_end, failure>>
    /\ UNCHANGED <<aggvars, fastvars>>

\* The write returns; the batch is reset and the next batch end computed.
\* The loop then sleeps for the sleep_time of this tick, which was computed
\* from the time_to_next_batch measured before the flush.
WriteComplete ==
    /\ pc = "writing"
    /\ \E delay \in Delays :
        /\ delay[1] = 0
        /\ clock' = clock + sleep_time + delay[2]
    /\ files' = CloseWritten(files, output_path, next_batch_end, FloorTimestamps(batch_data))
    /\ batch_data' = ResetBatch(batch_data)
    /\ next_batch_end' = NextBatchEnd(next_batch_end, BATCH_DURATION)
    /\ pc' = "loop"
    /\ UNCHANGED <<BATCH_DURATION, now, batch_start, first_batch_duration,
                   output_path, flushes, samples, nticks, nfaults, failure,
                   current_time, sleep_time>>
    /\ UNCHANGED <<compvars, aggvars, fastvars>>

\* The write raises (disk, space, permission): nothing in main() catches it.
WriteFail ==
    /\ pc = "writing"
    /\ pc' = "crashed"
    /\ failure' = "write"
    /\ UNCHANGED <<BATCH_DURATION, clock, now, batch_start, first_batch_duration,
                   next_batch_end, batch_data, output_path, files, flushes,
                   samples, nticks, nfaults, current_time, sleep_time>>
    /\ UNCHANGED <<compvars, aggvars, fastvars>>

\* A sensor read outside the particulate try block raises: read_sensors does
\* not return, nothing is appended and nothing in main() catches the error.
\* bme280.get_temperature raises before the compensation is called, the gas
\* and light reads raise after it.
SensorFail ==
    /\ pc = "loop"
    /\ nticks < MaxTicks
    /\ \E fault \in UnhandledFaults :
        /\ failure' = "sensor"
        /\ IF fault = "bme280"
           THEN UNCHANGED compvars
           ELSE CompensateCall(LoopTemperatureInputs.raw, LoopTemperatureInputs.read)
    /\ pc' = "crashed"
    /\ UNCHANGED <<BATCH_DURATION, clock, now, batch_start, first_batch_duration,
                   next_batch_end, batch_data, output_path, files, flushes,
                   samples, nticks, nfaults, current_time, sleep_time>>
    /\ UNCHANGED <<aggvars, fastvars>>

\* KeyboardInterrupt, at any point of the loop: the handler prints and main
\* returns; it writes nothing.
Interrupt ==
    /\ pc \in {"loop", "writing"}
    /\ pc' = "stopped"
    /\ failure' = "interrupt"
    /\ UNCHANGED <<BATCH_DURATION, clock, now, batch_start, first_batch_duration,
                   next_batch_end, batch_data, output_path, files, flushes,
                   samples, nticks, nfaults, current_time, sleep_time>>
    /\ UNCHANGED <<compvars, aggvars, fastvars>>

Next ==
    \/ Startup
    \/ Tick
    \/ TickFlush
    \/ WriteComplete
    \/ WriteFail
    \/ SensorFail
    \/ Interrupt

Spec == Init /\ [][Next]_vars

\* ------------------------------------ compensate_temperature on its own
\* The collection loop idle, the compensation switched on or off in the
\* configuration, the smoothing buffer as the module defines it.
CompSpecInit ==
    /\ BATCH_DURATION = 300
    /\ clock = 0
    /\ LoopInit
    /\ TEMP_COMPENSATION_ENABLED \in BOOLEAN
    /\ CompInit
    /\ source_rows = {}
    /\ AggInit
    /\ FastOff

\* One call with any raw temperature and any outcome of the thermal read.
compensate_temperature ==
    /\ ncalls < MaxCalls
    /\ \E raw \in RawTemperatures, read \in CpuReads : CompensateCall(raw, read)
    /\ UNCHANGED <<loopvars, aggvars, fastvars>>

CompNext == compensate_temperature

SpecComp == CompSpecInit /\ [][CompNext]_vars

\* ------------------------------------------------- the aggregation job
\* date_trunc('minute', timestamp) of a timestamp in seconds.
MinuteBucket(t) == 60 * (t \div 60)

\* The rows of SELECT ... GROUP BY date_trunc('minute', timestamp): one per
\* minute that holds a reading.
AggregatedRows(rows) == {MinuteBucket(t) : t \in rows}

\* The job is started for a station day whose input files hold any set of
\* the rows.
AggSpecInit ==
    /\ BATCH_DURATION = 300
    /\ clock = 0
    /\ LoopInit
    /\ TEMP_COMPENSATION_ENABLED = TRUE
    /\ CompInit
    /\ source_rows \in SUBSET SourceTimestamps
    /\ AggInit
    /\ FastOff

\* SELECT COUNT(*) of the input finds rows.
CountSource ==
    /\ agg_pc = "start"
    /\ Cardinality(source_rows) # 0
    /\ source_row_count' = Cardinality(source_rows)
    /\ agg_pc' = "counted"
    /\ UNCHANGED <<source_rows, dest_written, dest_rows, destination_row_count,
                   warned, outcome, exit_status>>
    /\ UNCHANGED <<loopvars, compvars, fastvars>>

\* SELECT COUNT(*) of the input finds none: "No data found", return 1.
NoData ==
    /\ agg_pc = "start"
    /\ Cardinality(source_rows) = 0
    /\ source_row_count' = 0
    /\ outcome' = "no_data"
    /\ exit_status' = 1
    /\ agg_pc' = "done"
    /\ UNCHANGED <<source_rows, dest_written, dest_rows, destination_row_count, warned>>
    /\ UNCHANGED <<loopvars, compvars, fastvars>>

\* COPY (SELECT ... GROUP BY minute) TO dest_path.
CopyAggregated ==
    /\ agg_pc = "counted"
    /\ dest_rows' = AggregatedRows(source_rows)
    /\ dest_written' = TRUE
    /\ agg_pc' = "copied"
    /\ UNCHANGED <<source_rows, source_row_count, destination_row_count, warned,
                   outcome, exit_status>>
    /\ UNCHANGED <<loopvars, compvars, fastvars>>

\* Whether the verification warns, given the two counts.
CountsDiffer(source_count, destination_count) == source_count # destination_count

\* The destination is re-read and counted, the counts are compared, a
\* difference is printed as a warning, and main() returns 0.
VerifyCounts ==
    /\ agg_pc = "copied"
    /\ destination_row_count' = Cardinality(dest_rows)
    /\ warned' = CountsDiffer(source_row_count, Cardinality(dest_rows))
    /\ outcome' = "ok"
    /\ exit_status' = 0
    /\ agg_pc' = "done"
    /\ UNCHANGED <<source_rows, source_row_count, dest_written, dest_rows>>
    /\ UNCHANGED <<loopvars, compvars, fastvars>>

\* Any of the three queries raises: "Error: ...", return 1.
QueryError ==
    /\ agg_pc \in {"start", "counted", "copied"}
    /\ outcome' = "error"
    /\ exit_status' = ErrorExitStatus
    /\ agg_pc' = "done"
    /\ UNCHANGED <<source_rows, source_row_count, dest_written, dest_rows,
                   destination_row_count, warned>>
    /\ UNCHANGED <<loopvars, compvars, fastvars>>

AggNext ==
    \/ CountSource
    \/ NoData
    \/ CopyAggregated
    \/ VerifyCounts
    \/ QueryError

SpecAgg == AggSpecInit /\ [][AggNext]_vars

\* --------------------------- the loop of sensor_to_parquet_fastparquet.py
\* The fields a reading of this script holds; the particulate sensor is
\* switched off in its SENSOR_CONFIG.
FastFields == {"temperature", "pressure", "humidity"} \cup GasFields \cup LightFields

\* read_sensors of this script when no sensor read raises.
fast_read_sensors(sampled_at) ==
    [timestamp |-> sampled_at, data |-> [f \in FastFields |-> "value"]]

\* sensor_data_<%Y%m%dT%H%M%SZ>.parquet: the name is fixed by the whole
\* second of the time of the flush.
FastFilename(t) == [stem |-> "sensor_data_", second |-> WholeSeconds(t), ext |-> ".parquet"]

\* Variant: the reading is not in the batch when the elapsed time is checked.
FastBatchAtCheck_CheckFirst(batch, sensor_data) == batch

\* batch_data when the elapsed time is checked: the reading of the
\* iteration was appended before the sleep.
FastBatchAtCheck(batch, sensor_data) == Append(batch, sensor_data)

\* sensor_to_parquet_fastparquet.py is the script that runs: main() has set
\* batch_data = [] and batch_start = time.time().
FastInit ==
    /\ fast_pc = "loop"
    /\ \E s \in StartSeconds, f \in StartFractions :
          /\ fast_clock = s * Res + f
          /\ fast_batch_start = s * Res + f
    /\ fast_batch_data = <<>>
    /\ fast_files = {}
    /\ fast_flushes = <<>>
    /\ fast_nticks = 0

\* One iteration whose elapsed check fails: sample, append, sleep, check.
FastTick ==
    /\ fast_pc = "loop"
    /\ fast_nticks < MaxFastTicks
    /\ \E delay \in FastDelays :
        LET sensor_data == fast_read_sensors(fast_clock)
            woke == fast_clock + FAST_READ_INTERVAL * Res + delay
        IN /\ ~(woke - fast_batch_start >= FAST_BATCH_DURATION * Res)
           /\ fast_batch_data' = FastBatchAtCheck(fast_batch_data, sensor_data)
           /\ fast_clock' = woke
    /\ fast_nticks' = fast_nticks + 1
    /\ UNCHANGED <<fast_pc, fast_batch_start, fast_files, fast_flushes>>
    /\ UNCHANGED <<loopvars, compvars, aggvars>>

\* One iteration whose elapsed check succeeds, up to the start of the write.
FastTickFlush ==
    /\ fast_pc = "loop"
    /\ fast_nticks < MaxFastTicks
    /\ \E delay \in FastDelays :
        LET sensor_data == fast_read_sensors(fast_clock)
            woke == fast_clock + FAST_READ_INTERVAL * Res + delay
            batch == FastBatchAtCheck(fast_batch_data, sensor_data)
        IN /\ woke - fast_batch_start >= FAST_BATCH_DURATION * Res
           /\ fast_batch_data' = batch
           /\ fast_clock' = woke
           /\ fast_files' = {f \in fast_files : f.name # FastFilename(woke)}
                  \cup {[name |-> FastFilename(woke), complete |-> FALSE, rows |-> <<>>]}
           /\ fast_flushes' = Append(fast_flushes,
                  [at |-> woke, name |-> FastFilename(woke), batch |-> batch])
    /\ fast_nticks' = fast_nticks + 1
    /\ fast_pc' = "writing"
    /\ UNCHANGED fast_batch_start
    /\ UNCHANGED <<loopvars, compvars, aggvars>>

\* The write returns; the batch and the timer are reset.
FastWriteComplete ==
    /\ fast_pc = "writing"
    /\ \E took \in FastWriteTimes :
        /\ fast_clock' = fast_clock + took
        /\ fast_batch_start' = fast_clock + took
    /\ LET name == fast_flushes[Len(fast_flushes)].name
       IN fast_files' = {f \in fast_files : f.name # name}
              \cup {[name |-> name, complete |-> TRUE, rows |-> fast_batch_data]}
    /\ fast_batch_data' = <<>>
    /\ fast_pc' = "loop"
    /\ UNCHANGED <<fast_flushes, fast_nticks>>
    /\ UNCHANGED <<loopvars, compvars, aggvars>>

\* The write raises: nothing in main() catches it.
FastWriteFail ==
    /\ fast_pc = "writing"
    /\ fast_pc' = "crashed"
    /\ UNCHANGED <<fast_clock, fast_batch_start, fast_batch_data, fast_files,
                   fast_flushes, fast_nticks>>
    /\ UNCHANGED <<loopvars, compvars, aggvars>>

\* A sensor read raises: read_sensors does not return and nothing in main()
\* catches the error.
FastSensorFail ==
    /\ fast_pc = "loop"
    /\ fast_nticks < MaxFastTicks
    /\ fast_pc' = "crashed"
    /\ UNCHANGED <<fast_clock, fast_batch_start, fast_batch_data, fast_files,
                   fast_flushes, fast_nticks>>
    /\ UNCHANGED <<loopvars, compvars, aggvars>>

\* KeyboardInterrupt: the handler prints and main() returns.
FastInterrupt ==
    /\ fast_pc \in {"loop", "writing"}
    /\ fast_pc' = "stopped"
    /\ UNCHANGED <<fast_clock, fast_batch_start, fast_batch_data, fast_files,
                   fast_flushes, fast_nticks>>
    /\ UNCHANGED <<loopvars, compvars, aggvars>>

FastNext ==
    \/ FastTick
    \/ FastTickFlush
    \/ FastWriteComplete
    \/ FastWriteFail
    \/ FastSensorFail
    \/ FastInterrupt

\* ------------------------------------------------- either loop variant
\* A run of main.py, or a run of sensor_to_parquet_fastparquet.py with
\* main.py not started.
VariantsInit ==
    \/ Init
    \/ /\ BATCH_DURATION = 300
       /\ clock = 0
       /\ pc = "off"
       /\ LoopGlobals
       /\ TEMP_COMPENSATION_ENABLED = TRUE
       /\ CompInit
       /\ source_rows = {}
       /\ AggInit
       /\ FastInit

VariantsNext ==
    \/ Next
    \/ FastNext

SpecVariants == VariantsInit /\ [][VariantsNext]_vars

\* ------------------------------------------------------------------ claims
GridSeconds == GridMinutes * 60

\* The boundaries at which flushes happened, oldest first.
Boundary(i) == flushes[i].boundary

\* C1 as stated: the flush boundaries are strictly increasing and every
\* boundary after the first is exactly BATCH_DURATION seconds after the
\* previous one.
C1_ExactlyDurationApart ==
    \A i \in 2..Len(flushes) :
        /\ Boundary(i) > Boundary(i - 1)
        /\ Boundary(i) - Boundary(i - 1) = BATCH_DURATION * Res

\* C1 amended: the flush boundaries are strictly increasing; every boundary
\* after the first is the previous one plus BATCH_DURATION moved up to the
\* next instant whose whole second lies on the 5-minute grid (the sub-second
\* part is kept), so the distance is at least BATCH_DURATION, less than
\* BATCH_DURATION plus one grid interval, and exactly BATCH_DURATION when
\* BATCH_DURATION is a multiple of the grid interval and the whole second of
\* the previous boundary lies on the grid.
C1_BoundariesRealigned ==
    \A i \in 2..Len(flushes) :
        LET gap == Boundary(i) - Boundary(i - 1)
        IN /\ Boundary(i) > Boundary(i - 1)
           /\ gap >= BATCH_DURATION * Res
           /\ gap < (BATCH_DURATION + GridSeconds) * Res
           /\ gap % Res = 0
           /\ WholeSeconds(Boundary(i)) % GridSeconds = 0
           /\ (BATCH_DURATION % GridSeconds = 0
                  /\ WholeSeconds(Boundary(i - 1)) % GridSeconds = 0)
              => gap = BATCH_DURATION * Res

\* C1 witness: a second flush took place one full batch duration after the
\* first, at a tick that arrived late.
C1_Witness ==
    /\ Len(flushes) >= 2
    /\ Boundary(2) - Boundary(1) = BATCH_DURATION * Res
    /\ flushes[2].at > Boundary(2)

\* C2 as stated: in every state of the loop the current window boundary
\* next_batch_end is an exact multiple of the 5-minute grid.
C2_BoundaryOnGrid ==
    pc \in {"loop", "writing"} => next_batch_end % (GridSeconds * Res) = 0

\* C3 as stated: two distinct windows of one run whose boundaries fall in
\* the same day never map to the same output path.
C3_DistinctWindowsDistinctPaths ==
    \A i, j \in 1..Len(flushes) :
        (i # j /\ EpochDay(Boundary(i)) = EpochDay(Boundary(j)))
            => flushes[i].path # flushes[j].path

\* C4 as stated, at the point where an operator interrupt has ended the
\* program: every file under a final partition path is a completely written
\* batch file.
C4_NoPartialFileLeft ==
    pc = "stopped" => \A f \in files : f.complete

\* The readings of the first n flushed batches, in flush order.
RECURSIVE FlushedUpTo(_)
FlushedUpTo(n) == IF n = 0 THEN <<>> ELSE FlushedUpTo(n - 1) \o flushes[n].batch

\* Every reading read_sensors returned, in sampling order.
Readings == [k \in 1..Len(samples) |-> samples[k].reading]

\* The boundary before the i-th flushed one; the start for the first.
PreviousBoundary(i) == IF i = 1 THEN batch_start ELSE Boundary(i - 1)

\* C5 as stated: the batch flushed at boundary B holds no reading whose
\* timestamp is later than B or earlier than the previous boundary.
C5_TimestampsWithinWindow ==
    \A i \in 1..Len(flushes) :
        \A k \in 1..Len(flushes[i].batch) :
            /\ flushes[i].batch[k].timestamp >= PreviousBoundary(i)
            /\ flushes[i].batch[k].timestamp <= Boundary(i)

\* C5 amended: the batch flushed at boundary B holds exactly the readings
\* sampled on the ticks since the previous flush (since start-up for the
\* first batch), in sampling order, the reading of the flushing tick last;
\* every reading but the last has a timestamp earlier than B, no reading has
\* a timestamp earlier than the previous boundary, and the last reading was
\* sampled on the tick that found the time at or past B, so that its
\* timestamp may be later than B.
C5_BatchIsTicksSinceLastFlush ==
    /\ \A i \in 1..Len(flushes) :
        LET batch == flushes[i].batch
            n == Len(batch)
        IN /\ n >= 1
           /\ \A k \in 1..(n - 1) :
                /\ batch[k].timestamp < Boundary(i)
                /\ batch[k].timestamp <= batch[k + 1].timestamp
           /\ \A k \in 1..n : batch[k].timestamp >= PreviousBoundary(i)
           /\ batch[n].timestamp <= flushes[i].at
           /\ flushes[i].at >= Boundary(i)
    /\ pc = "loop" => FlushedUpTo(Len(flushes)) \o batch_data = Readings
    /\ pc = "writing" => FlushedUpTo(Len(flushes)) = Readings

\* C5 witness: a late tick closed a window of two readings with a reading
\* later than its boundary, and the stall spanned the following boundary too,
\* whose batch is the single reading of the next tick.
C5_Witness ==
    /\ Len(flushes) >= 2
    /\ Len(flushes[1].batch) >= 2
    /\ flushes[1].batch[Len(flushes[1].batch)].timestamp > Boundary(1)
    /\ Len(flushes[2].batch) = 1
    /\ flushes[2].batch[1].timestamp > Boundary(2)

\* C6 as stated: a sensor read that raises never ends the collection loop.
C6_SensorErrorNeverHaltsLoop ==
    ~(pc = "crashed" /\ failure = "sensor")

\* The number of readings in the first n flushed batches.
RECURSIVE FlushedCount(_)
FlushedCount(n) == IF n = 0 THEN 0 ELSE FlushedCount(n - 1) + Len(flushes[n].batch)

\* C7: whenever a batch is handed to the writer it holds one reading per
\* tick of its window; the particulate fields are all null on the readings
\* of the ticks whose particulate read raised a timeout or value error and
\* on no other reading, and every other field of such a reading keeps its
\* value; once the write has returned the file holds the same values.
C7_ParticulateErrorNullsOnlyItsReading ==
    /\ pc = "writing" =>
        LET batch == flushes[Len(flushes)].batch
            offset == FlushedCount(Len(flushes) - 1)
        IN /\ batch = batch_data
           /\ offset + Len(batch) = nticks
           /\ Len(samples) = nticks
           /\ \A k \in 1..Len(batch) :
                /\ batch[k].timestamp = samples[offset + k].reading.timestamp
                /\ DOMAIN batch[k].data = Fields
                /\ \A f \in PMFields :
                     batch[k].data[f] = "None" <=> samples[offset + k].pm_error
                /\ \A f \in Fields \ PMFields : batch[k].data[f] = "value"
    /\ (pc = "loop" /\ batch_data = <<>> /\ flushes # <<>>) =>
        \E file \in files :
            /\ file.path = flushes[Len(flushes)].path
            /\ file.complete
            /\ Len(file.rows) = Len(flushes[Len(flushes)].batch)
            /\ \A k \in 1..Len(file.rows) :
                 file.rows[k].data = flushes[Len(flushes)].batch[k].data

\* C7 witness: a written batch of at least two readings in which the
\* particulate read failed on one tick and succeeded on another.
C7_Witness ==
    \E file \in files :
        /\ file.complete
        /\ Len(file.rows) >= 2
        /\ \E k \in 1..Len(file.rows) : \A f \in PMFields : file.rows[k].data[f] = "None"
        /\ \E k \in 1..Len(file.rows) : \A f \in PMFields : file.rows[k].data[f] = "value"
        /\ \E k \in 1..Len(samples) : samples[k].pm_error

\* C8 as stated: a failed file write never ends the loop, which goes on to
\* accumulate and flush the next window.
C8_WriteErrorNeverHaltsLoop ==
    ~(pc = "crashed" /\ failure = "write")

\* Inverse of the calendar conversion: the epoch day of a civil date.
DaysFromCivil(y0, m, d) ==
    LET y == IF m <= 2 THEN y0 - 1 ELSE y0
        era == y \div 400
        yoe == y - era * 400
        doy == (153 * (IF m > 2 THEN m - 3 ELSE m + 9) + 2) \div 5 + d - 1
        doe == yoe * 365 + yoe \div 4 - yoe \div 100 + doy
    IN era * 146097 + doe - 719468

\* The number written by a sequence of decimal digits.
RECURSIVE Number(_)
Number(digits) ==
    IF digits = <<>> THEN 0
    ELSE 10 * Number(SubSeq(digits, 1, Len(digits) - 1)) + digits[Len(digits)]

\* C9: whenever a batch is written, its path is output/station=<id>/
\* year=<YYYY>/month=<MM>/day=<DD>/<filename> with the UTC date of the
\* boundary, and the filename is data_<HHMM>.parquet (hour of the boundary,
\* minute of the boundary on the 5-minute grid) for a duration of at most
\* 300 s, data_<HH>.parquet above 300 s and up to 3600 s, data.parquet
\* otherwise; neither the time of the flush nor the timestamps of the
\* readings enter.
C9_PathFromBoundaryAndStation ==
    pc = "writing" =>
        LET dir == output_path.dir
            name == output_path.filename
            seconds == next_batch_end \div Res
            hh == (seconds \div 3600) % 24
            mm == (seconds \div 60) % 60
        IN /\ flushes[Len(flushes)].path = output_path
           /\ \E file \in files : file.path = output_path
           /\ dir.root = "output"
           /\ dir.station = STATION_ID
           /\ Len(dir.year) = 4 /\ Len(dir.month) = 2 /\ Len(dir.day) = 2
           /\ Number(dir.month) \in 1..12
           /\ Number(dir.day) \in 1..31
           /\ DaysFromCivil(Number(dir.year), Number(dir.month), Number(dir.day))
                = seconds \div 86400
           /\ name.ext = ".parquet"
           /\ BATCH_DURATION <= 300 =>
                /\ name.stem = "data_"
                /\ Len(name.digits) = 4
                /\ Number(SubSeq(name.digits, 1, 2)) = hh
                /\ Number(SubSeq(name.digits, 3, 4)) = mm - (mm % GridMinutes)
           /\ (BATCH_DURATION > 300 /\ BATCH_DURATION <= 3600) =>
                /\ name.stem = "data_"
                /\ Len(name.digits) = 2
                /\ Number(name.digits) = hh
           /\ BATCH_DURATION > 3600 =>
                /\ name.stem = "data"
                /\ name.digits = <<>>

\* C9 witness: a batch was flushed by a tick that ran on the day after its
\* boundary, with a reading of that later day in it.
C9_Witness ==
    \E i \in 1..Len(flushes) :
        /\ EpochDay(flushes[i].at) > EpochDay(Boundary(i))
        /\ EpochDay(flushes[i].batch[Len(flushes[i].batch)].timestamp) > EpochDay(Boundary(i))
        /\ \E file \in files : file.complete /\ file.path = flushes[i].path

\* The first window boundary of the run.
FirstBoundary == IF flushes = <<>> THEN next_batch_end ELSE Boundary(1)

\* C10 as stated: the first window is longer than zero and at most one grid
\* interval long.
C10_FirstWindowAtMostOneGridInterval ==
    pc # "init" =>
        /\ first_batch_duration > 0
        /\ first_batch_duration <= GridSeconds

\* C10 amended: when the whole second of the start is off the grid the
\* first window lasts the whole seconds up to the next grid instant, more
\* than zero and less than one grid interval; when it is on the grid the
\* first window lasts the full configured batch duration, whatever its
\* size; the first boundary is the base time plus that length.
C10_FirstWindowLength ==
    pc # "init" =>
        LET start == now \div Res
        IN /\ first_batch_duration > 0
           /\ start % GridSeconds # 0 =>
                /\ first_batch_duration < GridSeconds
                /\ (start + first_batch_duration) % GridSeconds = 0
           /\ start % GridSeconds = 0 => first_batch_duration = BATCH_DURATION
           /\ FirstBoundary = batch_start + first_batch_duration * Res

\* C10 witness: a run started on a grid instant with a batch duration above
\* one grid interval and flushed its first window.
C10_Witness ==
    /\ Len(flushes) >= 1
    /\ (now \div Res) % GridSeconds = 0
    /\ BATCH_DURATION > GridSeconds
    /\ Boundary(1) - batch_start = BATCH_DURATION * Res

\* The start instant 12:00:07.0 of the explored day, units.
StartAt120007 == (Day0 + 12*3600 + 7) * Res

\* A run configured with a batch duration of 60 s and started at 12:00:07Z.
OneMinuteRun == pc # "init" /\ BATCH_DURATION = 60 /\ now = StartAt120007

\* C11 as stated: with a batch duration of 60 s and a start at 12:00:07Z the
\* first window lasts 53 s, the first boundary is 12:01:00Z and the flushed
\* boundaries follow each other exactly 60 s apart.
C11_BoundariesOnMinuteGrid ==
    OneMinuteRun =>
        /\ first_batch_duration = 53
        /\ WholeSeconds(FirstBoundary) = Day0 + 12*3600 + 60
        /\ \A i \in 2..Len(flushes) : Boundary(i) = Boundary(i - 1) + 60 * Res

\* C11 amended: the alignment granularity is the fixed five-minute grid
\* whatever the batch duration. With a batch duration of 60 s and a start at
\* 12:00:07Z the first window lasts 293 s from the base time.time(), the
\* first boundary lies in the second 12:05:00Z when the base is read within
\* the second of the start, and the following boundaries are then exactly
\* 300 s apart (12:10:00Z, 12:15:00Z, ...), both the flushed ones and the
\* one in force.
C11_BoundariesOnFiveMinuteGrid ==
    OneMinuteRun =>
        /\ first_batch_duration = 293
        /\ FirstBoundary = batch_start + 293 * Res
        /\ WholeSeconds(batch_start) = WholeSeconds(now) =>
            /\ WholeSeconds(FirstBoundary) = Day0 + 12*3600 + 300
            /\ \A i \in 2..Len(flushes) : Boundary(i) = Boundary(i - 1) + 300 * Res
            /\ (pc = "loop" /\ flushes # <<>>) =>
                  next_batch_end = Boundary(Len(flushes)) + 300 * Res

\* C11 witness: such a run has flushed 12:05:00Z and 12:10:00Z.
C11_Witness ==
    /\ OneMinuteRun
    /\ Len(flushes) >= 2
    /\ WholeSeconds(Boundary(1)) = Day0 + 12*3600 + 300
    /\ WholeSeconds(Boundary(2)) = Day0 + 12*3600 + 600

\* C12 as stated: a job that finds no input rows ends with a "no data"
\* result that is not the result of a failed run, and it has written no
\* destination file.
C12_NoDataDistinctFromError ==
    outcome = "no_data" =>
        /\ exit_status # ErrorExitStatus
        /\ ~dest_written

\* C13 as stated: the verification compares the destination row count with
\* the number of distinct minute buckets of the input, so a job that
\* aggregated correctly ends without a warning; a mismatch is a warning
\* only and the job still returns 0.
C13_CountComparedWithMinuteBuckets ==
    outcome = "ok" =>
        /\ exit_status = 0
        /\ warned = (destination_row_count # Cardinality(AggregatedRows(source_rows)))

\* The first instant at or after t whose whole second is on the grid and
\* whose sub-second part is that of t.
GridCeil(t) ==
    LET r == WholeSeconds(t) % GridSeconds
    IN IF r = 0 THEN t ELSE t + (GridSeconds - r) * Res

\* C14: every boundary after the first is a function of the boundary before
\* it and of BATCH_DURATION alone (the previous boundary plus the duration,
\* moved up to the grid), whenever and however late the ticks took place;
\* the sequence of flushed boundaries is therefore fixed by the first
\* boundary and the configuration, and two runs that share them flush at the
\* same boundary values.
C14_BoundariesFromFirstAndDuration ==
    /\ \A i \in 2..Len(flushes) :
          Boundary(i) = GridCeil(Boundary(i - 1) + BATCH_DURATION * Res)
    /\ pc = "writing" => next_batch_end = Boundary(Len(flushes))
    /\ (pc = "loop" /\ flushes # <<>>) =>
          next_batch_end = GridCeil(Boundary(Len(flushes)) + BATCH_DURATION * Res)

\* C14 witness: the first flush was at least one batch duration late, the
\* second one followed, and the second boundary is still the one that
\* follows from the first.
C14_Witness ==
    /\ Len(flushes) >= 2
    /\ flushes[1].at >= Boundary(1) + BATCH_DURATION * Res
    /\ flushes[2].at > flushes[1].at
    /\ Boundary(2) = GridCeil(Boundary(1) + BATCH_DURATION * Res)

\* C15: when a tick finds the time at or past the boundary, the batch it
\* hands to the writer ends with the reading sampled on that very tick and
\* holds exactly the readings sampled since the previous flush; right after
\* the flush the batch is empty, so that reading is in no later batch.
C15_TickReadingInFlushedBatch ==
    /\ pc = "writing" =>
        LET fl == flushes[Len(flushes)]
            n == Len(fl.batch)
        IN /\ fl.at >= fl.boundary
           /\ fl.at = current_time
           /\ Len(samples) = nticks
           /\ n = nticks - FlushedCount(Len(flushes) - 1)
           /\ n >= 1
           /\ fl.batch[n] = samples[nticks].reading
           /\ fl.batch[1] = samples[nticks - n + 1].reading
    /\ (pc = "loop" /\ nticks > 0 /\ sleep_time = 0) => batch_data = <<>>

\* C15 witness: a reading sampled after the boundary is the last of the two
\* or more readings of the batch being written.
C15_Witness ==
    /\ pc = "writing"
    /\ Len(flushes[Len(flushes)].batch) >= 2
    /\ samples[nticks].reading.timestamp > next_batch_end
    /\ flushes[Len(flushes)].batch[Len(batch_data)] = samples[nticks].reading

\* The state after a tick that did not flush: the loop is about to sample
\* again and the batch holds that tick's reading.
AfterPlainTick == pc = "loop" /\ batch_data # <<>>

\* The sleep of the latest tick ended on time.
WokeOnTime == clock = current_time + sleep_time

\* C16, the sleeps: a tick that flushes has the time at or past the boundary
\* in force before the flush and a sleep of zero, also once its write has
\* returned; every other tick sleeps min(READ_INTERVAL, time left to the
\* boundary), which is more than zero; when that sleep ends on time the
\* next tick is due no later than the boundary.
C16_SleepOfLatestTick ==
    /\ pc = "writing" =>
          (current_time >= next_batch_end /\ sleep_time = 0)
    /\ (pc = "loop" /\ batch_data = <<>> /\ nticks > 0) => sleep_time = 0
    /\ AfterPlainTick =>
          /\ current_time < next_batch_end
          /\ sleep_time = Min(READ_INTERVAL * Res, next_batch_end - current_time)
          /\ sleep_time > 0
          /\ WokeOnTime => clock <= next_batch_end

\* C16, the flush: a tick that follows an on-time sleep of a tick before the
\* boundary, reads the time without latency and flushes, flushes at the
\* time of the boundary exactly.
C16_FlushAtBoundary ==
    (AfterPlainTick /\ WokeOnTime /\ pc' = "writing" /\ current_time' = clock)
        => current_time' = next_batch_end

\* C16: the loop sleeps min(READ_INTERVAL, time left to the boundary) after
\* each tick, zero exactly on the ticks that flush; without latency no tick
\* before a boundary is followed by a tick later than it, and the flush of
\* a boundary happens at a tick at the time of the boundary.
C16_SleepShortenedToBoundary ==
    []C16_SleepOfLatestTick /\ [][C16_FlushAtBoundary]_vars

\* C16 witness: a flush at the time of the boundary exactly, by a tick that
\* followed the tick before it after a sleep of less than READ_INTERVAL.
C16_Witness ==
    /\ pc = "writing"
    /\ current_time = next_batch_end
    /\ sleep_time = 0
    /\ Len(batch_data) >= 2
    /\ LET n == Len(batch_data)
       IN /\ batch_data[n].timestamp = next_batch_end
          /\ batch_data[n].timestamp - batch_data[n - 1].timestamp < READ_INTERVAL * Res
          /\ batch_data[n].timestamp > batch_data[n - 1].timestamp

\* The last n elements of a sequence.
LastN(seq, n) == SubSeq(seq, Len(seq) - n + 1, Len(seq))

\* The CPU temperatures read so far are all the same.
ConstantProxy == \A i \in 1..Len(cpu_samples) : cpu_samples[i] = cpu_samples[1]

\* C17: with compensation enabled the buffer is empty before the first call
\* and holds exactly five elements after every call; the first call fills
\* it with five copies of its sample, each later call drops the oldest
\* element and appends its sample, so that after five or more calls the
\* buffer is the last five samples in order; while every sample is one
\* constant the average is that constant from the first call on and the
\* result is raw - (constant - raw) / factor.
C17_BufferHoldsLastFive ==
    TEMP_COMPENSATION_ENABLED =>
        /\ Len(cpu_samples) = ncalls
        /\ ncalls = 0 => cpu_temps = <<>>
        /\ ncalls >= 1 =>
            /\ Len(cpu_temps) = 5
            /\ \A i \in 1..5 :
                  cpu_temps[i] = cpu_samples[Max(1, ncalls - 5 + i)]
            /\ comp_temp.den * TEMP_COMPENSATION_FACTOR.num * 5 * raw_temp
                  - comp_temp.den * TEMP_COMPENSATION_FACTOR.den * (Sum(cpu_temps) - 5 * raw_temp)
               = comp_temp.num * TEMP_COMPENSATION_FACTOR.num * 5
        /\ ncalls >= 5 => cpu_temps = LastN(cpu_samples, 5)
        /\ (ncalls >= 1 /\ ConstantProxy) =>
            /\ Sum(cpu_temps) = 5 * cpu_samples[1]
            /\ comp_temp.den * (TEMP_COMPENSATION_FACTOR.num * raw_temp
                                - TEMP_COMPENSATION_FACTOR.den * (cpu_samples[1] - raw_temp))
               = comp_temp.num * TEMP_COMPENSATION_FACTOR.num

\* C17 witness: six calls with changing samples, the first sample evicted.
C17_Witness ==
    /\ TEMP_COMPENSATION_ENABLED
    /\ ncalls = 6
    /\ cpu_samples[1] # cpu_samples[2]
    /\ cpu_samples[5] # cpu_samples[6]
    /\ cpu_temps = SubSeq(cpu_samples, 2, 6)

\* C18: with compensation disabled every call returns the raw temperature
\* unchanged and leaves the buffer as it was.
C18_DisabledReturnsRaw ==
    [][(~TEMP_COMPENSATION_ENABLED /\ ncalls' = ncalls + 1) =>
          /\ comp_temp'.num = raw_temp' * comp_temp'.den
          /\ cpu_temps' = cpu_temps
          /\ cpu_samples' = cpu_samples]_vars

\* C18 witness: several calls with different raw temperatures have been made
\* with compensation disabled.
C18_Witness ==
    /\ ~TEMP_COMPENSATION_ENABLED
    /\ ncalls >= 3
    /\ comp_temp = [num |-> raw_temp, den |-> 1]
    /\ raw_temp = 20000
    /\ cpu_temps = <<>>

\* A write has been begun and has not returned.
PendingWrite == \E f \in files : ~f.complete

\* Number of flushes whose write has returned.
WritesCompleted == Len(flushes) - (IF PendingWrite THEN 1 ELSE 0)

\* C19, the batches: while no write has failed, the batches handed to the
\* writer are consecutive slices of the sequence of readings sampled, in
\* sampling order, so that every reading of a flushed window is in exactly
\* one of them; right after a write has returned its file holds the rows of
\* its batch; the readings in no batch whose write has returned are those
\* the loop still holds in batch_data.
C19_ReadingsPartitionedIntoBatches ==
    failure # "write" =>
        /\ \A i \in 1..Len(flushes) :
              flushes[i].batch =
                  SubSeq(Readings, FlushedCount(i - 1) + 1, FlushedCount(i))
        /\ FlushedCount(Len(flushes)) <= Len(samples)
        /\ batch_data = SubSeq(Readings, FlushedCount(WritesCompleted) + 1, Len(samples))
        /\ (pc = "loop" /\ flushes # <<>> /\ batch_data = <<>>) =>
              \E f \in files :
                  /\ f.path = output_path
                  /\ f.complete
                  /\ f.rows = FloorTimestamps(flushes[Len(flushes)].batch)

\* C19, the interrupt: the step that stops the loop writes nothing.
C19_InterruptWritesNothing ==
    pc' = "stopped" =>
        (files' = files /\ flushes' = flushes /\ batch_data' = batch_data)

\* C19: as long as writes succeed every reading sampled before a flush is in
\* exactly one written batch, in order; the readings never written are those
\* of the last window, not flushed when the operator interrupts; and the
\* interrupt triggers no write.
C19_EveryReadingWrittenOnce ==
    []C19_ReadingsPartitionedIntoBatches /\ [][C19_InterruptWritesNothing]_vars

\* C19 witness: the operator interrupts after two writes have returned,
\* while the loop holds the readings of a third window.
C19_Witness ==
    /\ pc = "stopped"
    /\ ~PendingWrite
    /\ Len(flushes) = 2
    /\ batch_data # <<>>
    /\ Len(samples) = FlushedCount(2) + Len(batch_data)

\* One flush per tick at most, the flushed boundaries in increasing order
\* with none left out between two of them, and a flush whose boundary had
\* already passed when the flush before it took place carries the single
\* reading of its own tick.
C20_MissedBoundariesOnePerTick ==
    /\ Len(flushes) <= nticks
    /\ \A i \in 2..Len(flushes) :
          /\ Boundary(i - 1) < Boundary(i)
          /\ Boundary(i) < Boundary(i - 1) + (BATCH_DURATION + GridSeconds) * Res
          /\ flushes[i - 1].at <= flushes[i].at
          /\ flushes[i - 1].at >= Boundary(i) => Len(flushes[i].batch) = 1

\* C20 as stated: no boundary is skipped; while writes succeed every
\* boundary whose flush has been written has its own file, holding its
\* batch; each tick flushes once at most, and after a stall the missed
\* boundaries are flushed one per tick in increasing order, each catch-up
\* batch holding the single reading of its tick.
C20_EveryBoundaryFlushedToOwnFile ==
    /\ C20_MissedBoundariesOnePerTick
    /\ failure # "write" =>
          \A i \in 1..WritesCompleted :
              \E f \in files :
                  /\ f.complete
                  /\ f.boundary = Boundary(i)
                  /\ f.rows = FloorTimestamps(flushes[i].batch)

\* Number of readings in the first n batches flushed by
\* sensor_to_parquet_fastparquet.py.
RECURSIVE FastFlushedCount(_)
FastFlushedCount(n) ==
    IF n = 0 THEN 0 ELSE FastFlushedCount(n - 1) + Len(fast_flushes[n].batch)

\* C21: in both loop variants no flush writes an empty batch. In main.py
\* and in sensor_to_parquet_fastparquet.py alike, every batch handed to the
\* writer holds at least one reading, the reading sampled on the iteration
\* that flushes being its last, and no file whose write has returned is
\* without rows.
C21_NoEmptyBatchFlushed ==
    /\ \A i \in 1..Len(flushes) : Len(flushes[i].batch) >= 1
    /\ pc = "writing" =>
          /\ batch_data # <<>>
          /\ batch_data[Len(batch_data)] = samples[Len(samples)].reading
    /\ \A f \in files : f.complete => f.rows # <<>>
    /\ \A i \in 1..Len(fast_flushes) : Len(fast_flushes[i].batch) >= 1
    /\ fast_pc = "writing" =>
          /\ fast_batch_data # <<>>
          /\ fast_batch_data = fast_flushes[Len(fast_flushes)].batch
          /\ FastFlushedCount(Len(fast_flushes)) = fast_nticks
          /\ fast_batch_data[Len(fast_batch_data)].timestamp
                 <= fast_flushes[Len(fast_flushes)].at - FAST_READ_INTERVAL * Res
    /\ \A f \in fast_files : f.complete => f.rows # <<>>

\* C21 witness: sensor_to_parquet_fastparquet.py, having written a batch,
\* wakes from a long stall and flushes a batch that holds the one reading
\* sampled before the stall.
C21_Witness ==
    /\ fast_pc = "writing"
    /\ Len(fast_flushes) = 2
    /\ Len(fast_batch_data) = 1
    /\ fast_flushes[2].at - fast_batch_start > FAST_BATCH_DURATION * Res

\* The same case in main.py: after a stall a missed boundary is flushed by
\* the iteration that follows a flush, with the one reading it sampled.
C21_WitnessMain ==
    /\ pc = "writing"
    /\ Len(flushes) >= 2
    /\ Len(batch_data) = 1
    /\ files # {}

====
